---------------------------- MODULE Spec2Model ----------------------------
(***************************************************************************)
(* Model of lolonai/cloud-host-scanner:                                    *)
(*   src/scanner.py  the scanner (candidate source, probing, provider      *)
(*                   detection, reporting to the API)                      *)
(*   src/app.py      the Flask API in front of the PostgreSQL table        *)
(*                   cloud_hosts                                           *)
(*                                                                         *)
(* Strings are TLA+ strings; Len, SubSeq and \o act on them character by   *)
(* character.  A Python dict is a sequence of <<key, value>> pairs in      *)
(* insertion order.  An Optional value is a sequence of length 0 (None)    *)
(* or 1.                                                                   *)
(***************************************************************************)
EXTENDS Integers, Sequences, FiniteSets, TLC

VARIABLES
    \* ---- detect_provider called on its own (scanner.py:121-137)
    clsHeaders,     \* the headers argument
    clsDomain,      \* the domain argument
    clsOut,         \* <<>> before the call, <<return value>> after it
    \* ---- app.py: the table cloud_hosts and the requests served
    store,          \* the committed rows of cloud_hosts, in insertion order
    idSeq,          \* last value drawn from the SERIAL sequence of column id
    txn,            \* the requests, each with its own connection and
                    \* transaction once it is past get_db()
    \* ---- scanner.py: main's loop over the candidates and scan_batch
    ips,            \* main: the candidate list
    country,        \* main: the country scanned
    pc,             \* where the coordinating (main) thread is
    offset,         \* main: the loop variable i
    batch,          \* scan_batch: its argument ips, the slice ips[i:i+BATCH_SIZE]
    task,           \* scan_batch: one future per candidate of the batch
    yielded,        \* scan_batch: the futures as_completed has handed out
    results,        \* scan_batch: the list results
    total_found,    \* main: total_found
    sinkCalls,      \* the POSTs to /api/results made so far, in order
    dispatched,     \* per candidate position: how many tasks were started for it
    fate,           \* per candidate position: how its task ended
    slept,          \* main: how many times time.sleep(1) has been called
    \* ---- scanner.py: what get_ip_ranges_for_country meets
    upstream,       \* what ipinfo.io answers to the request for the ranges
    memory          \* per range of the answer: whether the process gets the
                    \* memory that the list of the range's hosts needs

clsVars == <<clsHeaders, clsDomain, clsOut>>
appVars == <<store, idSeq, txn>>
scanVars == <<ips, country, pc, offset, batch, task, yielded, results,
              total_found, sinkCalls, dispatched, fate, slept>>
srcVars == <<upstream, memory>>

-----------------------------------------------------------------------------
(* Python values *)

\* Python's None where a string is expected (a provider key, a JSON null).
None == "<None>"

\* str.lower() on the ASCII range.
UpperChars == "ABCDEFGHIJKLMNOPQRSTUVWXYZ"
LowerChars == "abcdefghijklmnopqrstuvwxyz"

UpperSet == {SubSeq(UpperChars, i, i) : i \in 1..Len(UpperChars)}

LowerMap ==
    [c \in UpperSet |->
        LET i == CHOOSE j \in 1..Len(UpperChars) : SubSeq(UpperChars, j, j) = c
        IN  SubSeq(LowerChars, i, i)]

LowerChar(c) == IF c \in UpperSet THEN LowerMap[c] ELSE c

RECURSIVE Lower(_)
Lower(s) ==
    IF Len(s) = 0 THEN ""
    ELSE LowerChar(SubSeq(s, 1, 1)) \o Lower(SubSeq(s, 2, Len(s)))

\* Python's `p in s` on strings.
Contains(p, s) ==
    \E i \in 0..(Len(s) - Len(p)) : SubSeq(s, i + 1, i + Len(p)) = p

\* d[k] = v on a dict: an existing key keeps its place and takes the new value.
DictSet(d, k, v) ==
    IF \E j \in 1..Len(d) : d[j][1] = k
    THEN [j \in 1..Len(d) |-> IF d[j][1] = k THEN <<k, v>> ELSE d[j]]
    ELSE Append(d, <<k, v>>)

-----------------------------------------------------------------------------
(* scanner.py: the provider registry and detect_provider *)

\* PROVIDERS in insertion order; "name" and "icon" are only printed.
PROVIDERS == <<
    [key |-> "heroku",
     headers |-> <<"via=vegur", "server=cowboy">>,
     domains |-> <<".herokuapp.com">>],
    [key |-> "aws",
     headers |-> <<"server=amazons3", "x-amz-", "server=awselb">>,
     domains |-> <<".amazonaws.com", ".elasticbeanstalk.com", ".awsglobalaccelerator.com">>],
    [key |-> "gcp",
     headers |-> <<"server=google frontend", "x-goog-", "server=gws">>,
     domains |-> <<".appspot.com", ".run.app", ".cloudfunctions.net">>],
    [key |-> "azure",
     headers |-> <<"server=microsoft-iis", "x-azure-", "server=microsoft-httpapi">>,
     domains |-> <<".azurewebsites.net", ".azure.com", ".cloudapp.azure.com">>],
    [key |-> "digitalocean",
     headers |-> <<"server=nginx/droplet">>,
     domains |-> <<".digitaloceanspaces.com", ".ondigitalocean.app">>],
    [key |-> "cloudflare",
     headers |-> <<"server=cloudflare", "cf-ray">>,
     domains |-> <<".pages.dev", ".workers.dev">>],
    [key |-> "ovh",
     headers |-> <<"server=apache (ovh)", "x-ovh-">>,
     domains |-> <<".ovh.net">>],
    [key |-> "netlify",
     headers |-> <<"server=netlify", "x-nf-">>,
     domains |-> <<".netlify.app", ".netlify.com">>],
    [key |-> "vercel",
     headers |-> <<"server=vercel", "x-vercel-">>,
     domains |-> <<".vercel.app", ".vercel.sh">>],
    [key |-> "render",
     headers |-> <<"x-render-">>,
     domains |-> <<".onrender.com">>],
    [key |-> "scalingo",
     headers |-> <<"x-scalingo-">>,
     domains |-> <<".scalingo.io", ".osc-fr1.scalingo.io">>],
    [key |-> "railway",
     headers |-> <<>>,
     domains |-> <<".railway.app", ".up.railway.app">>],
    [key |-> "fly",
     headers |-> <<"via=fly.io", "fly-request-id">>,
     domains |-> <<".fly.dev">>]
>>

ProviderKeys == {PROVIDERS[i].key : i \in 1..Len(PROVIDERS)}

\* headers_lower = {k.lower(): v.lower() for k, v in headers.items()}
RECURSIVE headers_lower_from(_, _, _)
headers_lower_from(headers, i, acc) ==
    IF i > Len(headers) THEN acc
    ELSE headers_lower_from(headers, i + 1,
             DictSet(acc, Lower(headers[i][1]), Lower(headers[i][2])))

headers_lower(headers) == headers_lower_from(headers, 1, <<>>)

\* " ".join([f"{k}={v}" for k, v in headers_lower.items()])
RECURSIVE JoinItems(_, _)
JoinItems(d, i) ==
    IF i > Len(d) THEN ""
    ELSE (d[i][1] \o "=" \o d[i][2])
         \o (IF i < Len(d) THEN " " ELSE "")
         \o JoinItems(d, i + 1)

headers_str(headers) == JoinItems(headers_lower(headers), 1)

\* pattern.lower() and domain_pattern.lower() for every signature of the
\* registry (the same values at every call).
PatternsLower ==
    [i \in 1..Len(PROVIDERS) |->
        [headers |-> [j \in 1..Len(PROVIDERS[i].headers) |->
                         Lower(PROVIDERS[i].headers[j])],
         domains |-> [j \in 1..Len(PROVIDERS[i].domains) |->
                         Lower(PROVIDERS[i].domains[j])]]]

\* for pattern in patterns: if pattern.lower() in text: return ...
AnyPatternIn(lowered, text) ==
    \E j \in 1..Len(lowered) : Contains(lowered[j], text)

\* The loop over PROVIDERS.items() from provider number i on.
RECURSIVE DetectFrom(_, _, _)
DetectFrom(i, hstr, domain) ==
    IF i > Len(PROVIDERS) THEN None
    ELSE IF AnyPatternIn(PatternsLower[i].headers, hstr) THEN PROVIDERS[i].key
    ELSE IF AnyPatternIn(PatternsLower[i].domains, Lower(domain)) THEN PROVIDERS[i].key
    ELSE DetectFrom(i + 1, hstr, domain)

\* A loop that tries every provider's header signatures before any domain
\* signature (not what the code does).
RECURSIVE DetectHeadersFrom(_, _)
DetectHeadersFrom(i, hstr) ==
    IF i > Len(PROVIDERS) THEN None
    ELSE IF AnyPatternIn(PatternsLower[i].headers, hstr) THEN PROVIDERS[i].key
    ELSE DetectHeadersFrom(i + 1, hstr)

RECURSIVE DetectDomainsFrom(_, _)
DetectDomainsFrom(i, domain) ==
    IF i > Len(PROVIDERS) THEN None
    ELSE IF AnyPatternIn(PatternsLower[i].domains, Lower(domain)) THEN PROVIDERS[i].key
    ELSE DetectDomainsFrom(i + 1, domain)

detect_provider_headers_first(headers, domain) ==
    LET h == DetectHeadersFrom(1, headers_str(headers))
    IN  IF h # None THEN h ELSE DetectDomainsFrom(1, domain)

detect_provider(headers, domain) ==
    DetectFrom(1, headers_str(headers), domain)

-----------------------------------------------------------------------------
(* detect_provider on its own, on every input of a bounded set *)

ClsHeaderMaps == {
    <<>>,
    << <<"Server", "Cowboy">>, <<"Via", "vegur">> >>,
    << <<"Server", "AmazonS3">>, <<"x-amz-request-id", "A1">> >>,
    << <<"X-Amz-Cf-Id", "Z9">>, <<"Server", "Cowboy">> >>,
    << <<"Server", "nginx">> >>,
    << <<"Server", "cloudflare">>, <<"CF-RAY", "8a1">> >>,
    << <<"Server", "Cowboy">>, <<"server", "nginx">> >>,
    << <<"Server", "Google">>, <<"Frontend", "x">> >>,
    << <<"Via", "1.1 vegur">>, <<"X-Vercel-Id", "cdg1">> >>
}

ClsDomains == {
    "", "10.0.0.1", "app.up.railway.app", "myapp.herokuapp.com",
    "MyApp.HerokuApp.COM", "x.run.app", "bucket.s3.amazonaws.com",
    "example.com", "foo.pages.dev", "evil.herokuapp.com.example.org"
}

ClsInit ==
    /\ clsHeaders \in ClsHeaderMaps
    /\ clsDomain \in ClsDomains
    /\ clsOut = <<>>

ClsIdle ==
    /\ clsHeaders = <<>>
    /\ clsDomain = ""
    /\ clsOut = <<>>

Classify ==
    /\ clsOut = <<>>
    /\ clsOut' = <<detect_provider(clsHeaders, clsDomain)>>
    /\ UNCHANGED <<clsHeaders, clsDomain>>
    /\ UNCHANGED <<appVars, scanVars, srcVars>>


-----------------------------------------------------------------------------
(* app.py: the table cloud_hosts (init_db) and the routes that write it *)

\* A key that a JSON object does not hold (r["ip"] raises KeyError).
Absent == "<absent>"

\* API_KEY = os.getenv("API_KEY", "changeme")
API_KEY == "changeme"

\* NOT NULL columns of cloud_hosts: ip, provider, country.
NotNullViolation(r) == r.ip = None \/ r.provider = None \/ r.country = None

\* v is the mark of a missing key, whatever the values the key can hold
\* (texts, numbers, header maps).
IsAbsent(v) == ToString(v) = ToString(Absent)

\* r.get(key, default), given v = the value under the key or Absent;
\* r.get(key) is r.get(key, None).
DictGet(v, default) == IF IsAbsent(v) THEN default ELSE v

\* The value r holds under the key, Absent when it holds none: a record of the
\* model may carry the mark or lack the field.
Field(r, key) == IF key \in DOMAIN r THEN r[key] ELSE Absent

\* r["ip"], r["provider"], r["country"]: a missing key raises KeyError while
\* the parameter tuple is built, before cur.execute is called.
RaisesKeyError(r) ==
    \/ IsAbsent(Field(r, "ip"))
    \/ IsAbsent(Field(r, "provider"))
    \/ IsAbsent(Field(r, "country"))

\* The value the column headers takes from json.dumps(h): the text of the
\* object h, which JSONB stores as that object, the empty one for {}; the
\* text null for None, which JSONB stores as the JSON null (not SQL NULL).
JsonValue(h) == IF h = None THEN "null" ELSE h

\* The arbiter of ON CONFLICT (ip, domain) is the index of UNIQUE(ip, domain).
\* PostgreSQL compares index keys with NULLs distinct: a row whose domain is
\* NULL conflicts with no row.
ConflictsWith(row, ip, domain) ==
    /\ domain # None
    /\ row.domain # None
    /\ row.ip = ip
    /\ row.domain = domain

\* One INSERT of the loop of add_results, for record r, from the point where
\* it can run to its end, in the transaction t = [rows, id, aborted, added]
\* (rows: the committed rows and those the transaction has inserted; id: the
\* value the statement has drawn for the column id):
\*   - KeyError: caught, nothing sent to the database;
\*   - transaction already aborted: execute raises, caught;
\*   - NOT NULL is checked on the row formed: a violation raises and aborts the
\*     transaction (every later statement fails);
\*   - a conflicting row: DO NOTHING, rowcount 0;
\*   - else the row is inserted, rowcount 1.
InsertOne(t, r) ==
    IF RaisesKeyError(r) THEN t
    ELSE IF t.aborted THEN t
    ELSE IF NotNullViolation(r) THEN [t EXCEPT !.aborted = TRUE]
    ELSE IF \E j \in 1..Len(t.rows) :
                ConflictsWith(t.rows[j], r.ip, DictGet(Field(r, "domain"), None))
         THEN t
    ELSE [t EXCEPT !.added = @ + 1,
                   !.rows = Append(@, [id |-> t.id,
                                       ip |-> r.ip,
                                       domain |-> DictGet(Field(r, "domain"), None),
                                       provider |-> r.provider,
                                       country |-> r.country,
                                       headers |->
                                           JsonValue(DictGet(Field(r, "headers"), <<>>)),
                                       status_code |->
                                           DictGet(Field(r, "status_code"), None),
                                       selected |-> FALSE])]

\* conn.commit(): the rows of the transaction join the table; COMMIT of an
\* aborted transaction rolls it back (and raises nothing).  The sequence
\* is not transactional: values drawn stay drawn.
Commit(t, committed) == IF t.aborted THEN committed ELSE committed \o t.rows

\* A check that lets every request in (not what the code does).
KeyAcceptedAlways(req) == TRUE

\* The api_key check of add_results.
KeyAccepted(req) == req.api_key = API_KEY

\* UPDATE cloud_hosts SET selected = NOT selected WHERE id = %s
\* (First, the statement without its WHERE clause: not what the code runs.)
UpdateSelectedEverywhere(rows, host_id) ==
    [j \in 1..Len(rows) |-> [rows[j] EXCEPT !.selected = ~@]]

UpdateSelected(rows, host_id) ==
    [j \in 1..Len(rows) |->
        IF rows[j].id = host_id
        THEN [rows[j] EXCEPT !.selected = ~@]
        ELSE rows[j]]

\* RETURNING selected, then result[0] if result else False
Returning(rows, host_id) ==
    \E j \in 1..Len(rows) : rows[j].id = host_id /\ rows[j].selected

(* The requests in flight.  Flask serves each request in a thread of its own;
   a handler opens its own connection (get_db), so each request past that
   point has its own transaction, at PostgreSQL's default isolation level
   READ COMMITTED.  A handler makes one round trip to the database for each
   statement and one for conn.commit(); the round trips of different requests
   interleave in any order. *)

MaxBatch == 2       \* records per request

\* The requests of a run are the domain of txn: two to /api/results, or one to
\* /api/results and two to /api/toggle/<host_id>.  Those of a kind are
\* numbered in their order of arrival.
Adders == {1, 2}
Togglers == {3, 4}
RequestMixes == {{1, 2}, {1, 3, 4}}

Clients == DOMAIN txn
AddRequests == Adders \cap DOMAIN txn
ToggleRequests == Togglers \cap DOMAIN txn

\* A request that has not arrived.
Idle ==
    [op |-> "idle", req |-> <<>>, k |-> 0, rows |-> <<>>, aborted |-> FALSE,
     added |-> 0, drawn |-> 0, snapshot |-> <<>>, writes |-> {}, resp |-> <<>>]

\* add_results past its api_key check, with its connection open:
\*   req      the JSON body
\*   k        the record the loop is at
\*   rows     the rows its transaction has inserted and not yet committed
\*   aborted  a statement of the transaction has failed
\*   added    the local added
\*   drawn    the id the INSERT under way has drawn from the sequence (0 when
\*            no INSERT is under way)
\*   resp     <<>> until the request is answered
OpenTxn(req) ==
    [Idle EXCEPT !.op = "add_results", !.req = req, !.k = 1]

\* add_results answered at once: return jsonify({"error": ...}), 401
Rejected(req) ==
    [Idle EXCEPT !.op = "add_results", !.req = req,
                 !.resp = <<[status |-> 401, added |-> 0]>>]

Arrived == {i \in Clients : txn[i].op # "idle"}

\* Request i can be the next of its kind to arrive.
NextToArrive(i) ==
    /\ txn[i].op = "idle"
    /\ \A j \in Clients : (j < i /\ (j \in Adders <=> i \in Adders)) => j \in Arrived

\* POST /api/results, lines 110-120: the key check, then get_db().
add_results(i, req) ==
    /\ NextToArrive(i)
    /\ txn' = [txn EXCEPT ![i] = IF KeyAccepted(req) THEN OpenTxn(req)
                                 ELSE Rejected(req)]
    /\ UNCHANGED <<store, idSeq>>

\* The loop of request i has a record left.
InLoop(i) ==
    /\ txn[i].op = "add_results"
    /\ txn[i].resp = <<>>
    /\ txn[i].k <= Len(txn[i].req.results)

\* The record the loop of request i is at.
Record(i) == txn[i].req.results[txn[i].k]

\* What the statements of request i see: the committed rows and its own.
View(i) == store \o txn[i].rows

\* cur.execute reaches the server and the server runs the INSERT: the
\* parameters were built and the transaction is alive.
Runs(i) == InLoop(i) /\ ~RaisesKeyError(Record(i)) /\ ~txn[i].aborted

\* The INSERT of request i has formed its row and reaches the check of the
\* unique index: NOT NULL holds.
ReachesIndex(i) ==
    Runs(i) /\ txn[i].drawn # 0 /\ ~NotNullViolation(Record(i))

\* The rows of the table that request j has written and not yet committed: the
\* rows its transaction has inserted, the rows its UPDATE has changed.
Uncommitted(j) ==
    {txn[j].rows[n] : n \in 1..Len(txn[j].rows)}
    \cup {store[n] : n \in {m \in 1..Len(store) :
                               \E w \in txn[j].writes : w.id = store[m].id}}

\* The requests whose transaction the INSERT of request i waits for: the index
\* holds an entry for its pair whose row such a transaction has written; the
\* INSERT goes on when that transaction has committed or rolled back.
WaitsFor(i) ==
    {j \in Clients \ {i} :
        /\ ReachesIndex(i)
        /\ \E row \in Uncommitted(j) :
              ConflictsWith(row, Record(i).ip, DictGet(Field(Record(i), "domain"), None))}

\* The server starts the INSERT of request i: it forms the row, and the
\* default of the column id draws the next value of the sequence (before
\* any constraint is checked, and before any wait).
StartInsert ==
    \E i \in AddRequests :
        /\ Runs(i)
        /\ txn[i].drawn = 0
        /\ idSeq' = idSeq + 1
        /\ txn' = [txn EXCEPT ![i].drawn = idSeq + 1]
        /\ UNCHANGED store
        /\ UNCHANGED <<clsVars, scanVars, srcVars>>

\* One turn of the loop of add_results in request i comes to its end: the
\* INSERT whose row is formed is not waiting (or cur.execute raises at once,
\* or the parameters cannot be built).  A failed statement rolls back what
\* the transaction has inserted, at once.
ExecuteInsert ==
    \E i \in AddRequests :
        /\ InLoop(i)
        /\ Runs(i) => txn[i].drawn # 0
        /\ WaitsFor(i) = {}
        /\ LET t == InsertOne([rows |-> View(i), id |-> txn[i].drawn,
                               aborted |-> txn[i].aborted, added |-> txn[i].added],
                              Record(i))
           IN  txn' = [txn EXCEPT
                          ![i].k = @ + 1,
                          ![i].drawn = 0,
                          ![i].aborted = t.aborted,
                          ![i].added = t.added,
                          ![i].rows = IF t.aborted THEN <<>>
                                      ELSE SubSeq(t.rows, Len(store) + 1, Len(t.rows))]
        /\ UNCHANGED <<store, idSeq>>
        /\ UNCHANGED <<clsVars, scanVars, srcVars>>

\* Two requests wait for each other: PostgreSQL's deadlock detector makes the
\* INSERT of one of them fail ("deadlock detected").  The exception is caught
\* by the except clause of the loop; the transaction is aborted and its rows
\* are gone.  The value the failed INSERT has drawn is lost.
DeadlockDetected ==
    \E i \in AddRequests, j \in AddRequests :
        /\ j \in WaitsFor(i)
        /\ i \in WaitsFor(j)
        /\ txn' = [txn EXCEPT ![i].k = @ + 1, ![i].drawn = 0,
                              ![i].aborted = TRUE, ![i].rows = <<>>]
        /\ UNCHANGED <<store, idSeq>>
        /\ UNCHANGED <<clsVars, scanVars, srcVars>>

\* conn.commit() and the answer {"status": "ok", "added": added}.
CommitAndAnswer ==
    \E i \in AddRequests :
        /\ txn[i].op = "add_results"
        /\ txn[i].resp = <<>>
        /\ txn[i].k > Len(txn[i].req.results)
        /\ store' = Commit([rows |-> txn[i].rows, aborted |-> txn[i].aborted], store)
        /\ txn' = [txn EXCEPT ![i].rows = <<>>,
                              ![i].resp = <<[status |-> 200, added |-> txn[i].added]>>]
        /\ UNCHANGED idSeq
        /\ UNCHANGED <<clsVars, scanVars, srcVars>>

\* The rows that differ between the table and the table as a statement leaves
\* it, as [id, selected].
Written(before, after) ==
    {[id |-> after[j].id, selected |-> after[j].selected] :
        j \in {n \in 1..Len(before) : after[n] # before[n]}}

\* The requests whose UPDATE has changed, and not yet committed, a row that
\* the UPDATE of request i would change: the UPDATE waits for them.
LockedBy(i, host_id) ==
    {j \in ToggleRequests \ {i} :
        \E w \in txn[j].writes, v \in Written(store, UpdateSelected(store, host_id)) :
            w.id = v.id}

\* POST /api/toggle/<host_id>, lines 251-262: get_db(), the UPDATE (it sees
\* the committed rows, and waits while another transaction holds a row it
\* changes) and cur.fetchone().
\*   snapshot  the rows the UPDATE saw
\*   writes    the rows it changed, not yet committed
toggle_selection(i, host_id) ==
    /\ NextToArrive(i)
    /\ LockedBy(i, host_id) = {}
    /\ txn' = [txn EXCEPT ![i] =
                  [Idle EXCEPT !.op = "toggle_selection",
                               !.req = [host_id |-> host_id],
                               !.snapshot = store,
                               !.writes = Written(store, UpdateSelected(store, host_id))]]
    /\ UNCHANGED <<store, idSeq>>

\* The table once the rows written by an UPDATE are committed.
ApplyWrites(rows, writes) ==
    [j \in 1..Len(rows) |->
        IF \E w \in writes : w.id = rows[j].id
        THEN [rows[j] EXCEPT !.selected = (CHOOSE w \in writes : w.id = rows[j].id).selected]
        ELSE rows[j]]

\* toggle_selection, lines 263-267: conn.commit() and the answer
\* {"selected": result[0] if result else False}.
ToggleCommit ==
    \E i \in ToggleRequests :
        /\ txn[i].op = "toggle_selection"
        /\ txn[i].resp = <<>>
        /\ store' = ApplyWrites(store, txn[i].writes)
        /\ txn' = [txn EXCEPT
                      ![i].snapshot = <<>>,
                      ![i].writes = {},
                      ![i].resp = <<[status |-> 200,
                                     selected |-> Returning(ApplyWrites(txn[i].snapshot, txn[i].writes),
                                                            txn[i].req.host_id)]>>]
        /\ UNCHANGED idSeq
        /\ UNCHANGED <<clsVars, scanVars, srcVars>>

(* The requests the model sends *)

HeadersCowboy == << <<"Server", "Cowboy">> >>

\* Two pairs with a domain, a record that holds only the keys ip, provider
\* and country, and one that violates NOT NULL.
RecordPool == {
    [ip |-> "1.1.1.1", domain |-> "a.example", provider |-> "heroku",
     country |-> "FR", headers |-> HeadersCowboy, status_code |-> 200],
    [ip |-> "3.3.3.3", domain |-> "c.example", provider |-> "aws",
     country |-> "US", headers |-> <<>>, status_code |-> 404],
    [ip |-> "2.2.2.2", provider |-> "gcp", country |-> "FR"],
    [ip |-> "2.2.2.2", domain |-> "b.example", provider |-> None,
     country |-> "FR", headers |-> <<>>, status_code |-> 200]
}

Batches == UNION {[1..n -> RecordPool] : n \in 0..MaxBatch}

ApiKeys == {API_KEY, "wrong"}

\* An empty table, and the requests still to arrive.
AppInit ==
    /\ store = <<>>
    /\ idSeq = 0
    /\ \E mix \in RequestMixes : txn = [i \in mix |-> Idle]

\* An empty table that no request reaches.
AppIdle ==
    /\ store = <<>>
    /\ idSeq = 0
    /\ txn = <<>>

AddResults ==
    /\ \E i \in AddRequests, key \in ApiKeys, records \in Batches :
          add_results(i, [api_key |-> key, results |-> records])
    /\ UNCHANGED <<clsVars, scanVars, srcVars>>

ToggleSelection ==
    /\ \E i \in ToggleRequests, host_id \in 1..(idSeq + 1) : toggle_selection(i, host_id)
    /\ UNCHANGED <<clsVars, scanVars, srcVars>>


-----------------------------------------------------------------------------
(* scanner.py: scan_ip, send_to_api, scan_batch and the loop of main *)

\* BATCH_SIZE = 100 and MAX_WORKERS = 50 in the source, scaled down.
BATCH_SIZE == 3
MAX_WORKERS == 2

MaxIps == 4         \* candidates per run

Min(a, b) == IF a < b THEN a ELSE b

\* Position of the first occurrence of p in s, 0 when there is none.
Find(p, s) ==
    IF Contains(p, s)
    THEN 1 + (CHOOSE i \in 0..(Len(s) - Len(p)) :
                /\ SubSeq(s, i + 1, i + Len(p)) = p
                /\ \A k \in 0..(i - 1) : SubSeq(s, k + 1, k + Len(p)) # p)
    ELSE 0

\* s.split(p)[0]
BeforeFirst(p, s) ==
    IF Find(p, s) = 0 THEN s ELSE SubSeq(s, 1, Find(p, s) - 1)

\* s.split(p)[1], for s that holds p
SecondPiece(p, s) ==
    BeforeFirst(p, SubSeq(s, Find(p, s) + Len(p), Len(s)))

\* resp.url.split("//")[1].split("/")[0] if "//" in resp.url else ip
FinalDomain(url, ip) ==
    IF Contains("//", url) THEN BeforeFirst("/", SecondPiece("//", url)) ELSE ip

\* The protocols scan_ip tries, in order.
Protocols == <<"http", "https">>

\* What a GET can come back with: an exception (connection refused, timeout,
\* TLS failure) or a response.  url is the final URL after redirections;
\* "" stands for the URL requested, f"{protocol}://{ip}/".
GetRaises == [raised |-> TRUE]

Responses == {
    [raised |-> FALSE, status_code |-> 200, url |-> "",
     headers |-> << <<"Server", "Cowboy">> >>],
    [raised |-> FALSE, status_code |-> 200, url |-> "https://app.up.railway.app/login",
     headers |-> << <<"Server", "nginx">> >>],
    [raised |-> FALSE, status_code |-> 404, url |-> "",
     headers |-> << <<"Server", "nginx">> >>]
}

GetOutcomes == {GetRaises} \cup Responses

RespUrl(resp, protocol, ip) ==
    IF resp.url = "" THEN protocol \o "://" \o ip \o "/" ELSE resp.url

\* country=country in scan_ip: the result carries the argument.
\* (First, a scan_ip that writes the default country: not what the code does.)
ResultCountryDefault(ctry) == "FR"

ResultCountry(ctry) == ctry

\* `if provider:` in scan_ip.
\* (First, a scan_ip that builds a ScanResult whatever detect_provider
\* returned: not what the code does.)
ProviderFoundAlways(provider) == TRUE

ProviderFound(provider) == provider # None /\ provider # ""

\* The body of the try block of scan_ip for one response: <<ScanResult>> when
\* a provider is detected, <<>> when not.
ScanResponse(resp, protocol, ip, ctry) ==
    LET final_domain == FinalDomain(RespUrl(resp, protocol, ip), ip)
        provider == detect_provider(resp.headers, final_domain)
    IN  IF ProviderFound(provider)
        THEN <<[ip |-> ip, domain |-> final_domain, provider |-> provider,
                country |-> ResultCountry(ctry), headers |-> resp.headers,
                status_code |-> resp.status_code]>>
        ELSE <<>>

\* The candidates and the target countries of the runs the model makes.
IpOf(k) == "10.0.0." \o ToString(k)

\* os.getenv("SCAN_COUNTRY", "FR"): the default and another value.
Countries == {"FR", "US"}

\* ScanResponse for every response, protocol, candidate and country of the
\* model, evaluated once.
ScanResponses ==
    [resp \in Responses |->
        [p \in DOMAIN Protocols |->
            [ip \in {IpOf(k) : k \in 1..MaxIps} |->
                [ctry \in Countries |->
                    ScanResponse(resp, Protocols[p], ip, ctry)]]]]

\* A scan_ip that keeps a candidate without result, with status code 0 (not
\* what the code does).
ScanIpExhaustedRetain(ip, ctry) ==
    <<[ip |-> ip, domain |-> ip, provider |-> None, country |-> ctry,
       headers |-> <<>>, status_code |-> 0]>>

\* scan_ip when every protocol has been tried without a result: return None.
\* (ip and ctry are scan_ip's arguments.)
ScanIpExhausted(ip, ctry) == <<>>

\* `if results` in scan_batch and `if not results: return` in send_to_api, with a
\* guard that lets an empty list through first (not what the code does).
HasResultsAlways(list) == TRUE

HasResults(list) == Len(list) > 0

\* What the outcome of requests.post does to send_to_api: an exception is
\* caught and printed, a response is printed whatever its status; either way
\* send_to_api returns normally.
\* (First, a send_to_api whose except clause is missing: the error escapes.)
SinkErrorEscapes(outcome) == FALSE

SinkErrorCaught(outcome) == TRUE

AfterPost(outcome) ==
    IF outcome = "error" /\ ~SinkErrorCaught(outcome) THEN "crashed" ELSE "returning"

\* ips[i:] (not what the code does)
SliceToEnd(list, i) == SubSeq(list, i + 1, Len(list))

\* ips[i:i+BATCH_SIZE]
Slice(list, i) == SubSeq(list, i + 1, Min(i + BATCH_SIZE, Len(list)))

\* What requests.post can come back with: a status code, or "error" for an
\* exception (connection refused, timeout).
PostOutcomes == {"200", "401", "500", "error"}

FreshTask == [st |-> "queued", proto |-> 1, out |-> <<>>, tried |-> <<>>]

\* A future whose result the loop of scan_batch has taken: nothing reads it
\* again.
ConsumedTask == [st |-> "consumed", proto |-> 0, out |-> <<>>, tried |-> <<>>]

Running == {j \in DOMAIN task : task[j].st = "running"}

(* The coordinating thread *)

\* for i in range(0, len(ips), BATCH_SIZE): batch = ips[i:i+BATCH_SIZE];
\* scan_batch(batch, country): results = []; the executor is created and every
\* candidate of the batch is submitted.
MainLoop ==
    /\ pc = "main"
    /\ IF offset < Len(ips)
       THEN /\ batch' = Slice(ips, offset)
            /\ task' = [j \in 1..Len(Slice(ips, offset)) |-> FreshTask]
            /\ results' = <<>>
            /\ yielded' = {}
            /\ pc' = "collect"
       ELSE /\ pc' = "done"
            /\ UNCHANGED <<batch, task, results, yielded>>
    /\ UNCHANGED <<ips, country, offset, total_found, sinkCalls, dispatched, fate>>
    /\ UNCHANGED <<slept, clsVars, appVars, srcVars>>

\* for future in as_completed(futures): result = future.result();
\* if result: results.append(result)
Collect ==
    /\ pc = "collect"
    /\ \E j \in DOMAIN task :
          /\ task[j].st = "done"
          /\ j \notin yielded
          /\ yielded' = yielded \cup {j}
          /\ results' = IF task[j].out # <<>>
                        THEN Append(results, task[j].out[1])
                        ELSE results
          /\ task' = [task EXCEPT ![j] = ConsumedTask]
    /\ UNCHANGED <<ips, country, pc, offset, batch, total_found,
                   sinkCalls, dispatched, fate>>
    /\ UNCHANGED <<slept, clsVars, appVars, srcVars>>

\* When the coordinating thread leaves the with block: as_completed has
\* yielded every future (ys) of the tasks submitted (ts), and
\* shutdown(wait=True) has joined the workers.
\* (First, a pool left as soon as one future has been yielded: not what the
\* code does.)
PoolDrainedAtFirst(ys, ts) == ys # {} \/ DOMAIN ts = {}

PoolDrained(ys, ts) == ys = DOMAIN ts

\* as_completed is exhausted and the with block ends (shutdown(wait=True)).
PoolExit ==
    /\ pc = "collect"
    /\ PoolDrained(yielded, task)
    /\ pc' = "pool_closed"
    /\ UNCHANGED <<ips, country, offset, batch, task, yielded, results,
                   total_found, sinkCalls, dispatched, fate>>
    /\ UNCHANGED <<slept, clsVars, appVars, srcVars>>

\* if results: self.send_to_api(results), up to the call of requests.post.
PostStart ==
    /\ pc = "pool_closed"
    /\ HasResults(results)      \* scan_batch: if results
    /\ HasResults(results)      \* send_to_api: if not results: return
    /\ sinkCalls' = Append(sinkCalls,
                       [at |-> offset, records |-> results, slept |-> slept,
                        outcome |-> "in flight"])
    /\ pc' = "posting"
    /\ UNCHANGED <<ips, country, offset, batch, task, yielded, results,
                   total_found, dispatched, fate>>
    /\ UNCHANGED <<slept, clsVars, appVars, srcVars>>

\* Nothing to send: scan_batch skips send_to_api.
PostSkipped ==
    /\ pc = "pool_closed"
    /\ ~HasResults(results)
    /\ pc' = "returning"
    /\ UNCHANGED <<ips, country, offset, batch, task, yielded, results,
                   total_found, sinkCalls, dispatched, fate>>
    /\ UNCHANGED <<slept, clsVars, appVars, srcVars>>

\* requests.post returns or raises.
PostEnd ==
    /\ pc = "posting"
    /\ \E outcome \in PostOutcomes :
          /\ sinkCalls' = [sinkCalls EXCEPT ![Len(sinkCalls)].outcome = outcome]
          /\ pc' = AfterPost(outcome)
    /\ UNCHANGED <<ips, country, offset, batch, task, yielded, results,
                   total_found, dispatched, fate>>
    /\ UNCHANGED <<slept, clsVars, appVars, srcVars>>

\* return len(results); total_found += found.  The locals of scan_batch go.
BatchReturn ==
    /\ pc = "returning"
    /\ total_found' = total_found + Len(results)
    /\ batch' = <<>>
    /\ task' = <<>>
    /\ yielded' = {}
    /\ results' = <<>>
    /\ pc' = "sleeping"
    /\ UNCHANGED <<ips, country, offset, sinkCalls, dispatched, fate>>
    /\ UNCHANGED <<slept, clsVars, appVars, srcVars>>

\* The next i of range(0, len(ips), BATCH_SIZE).
\* (First, a step that is one too long: not what the code does.)
NextOffsetSkipping(i) == i + BATCH_SIZE + 1

NextOffset(i) == i + BATCH_SIZE

\* The calls of time.sleep(1) made once scan_batch has returned for the slice
\* at off: one more than the n made before, whatever calls have gone to the
\* sink and however they ended.
\* (First, a loop that sleeps only after a call that the sink accepted: not
\* what the code does.)
SleptAfterAccepted(n, calls, off) ==
    IF \E k \in 1..Len(calls) : calls[k].at = off /\ calls[k].outcome = "200"
    THEN n + 1 ELSE n

SleptAfter(n, calls, off) == n + 1

\* time.sleep(1), then the next i.
Sleep ==
    /\ pc = "sleeping"
    /\ slept' = SleptAfter(slept, sinkCalls, offset)
    /\ offset' = NextOffset(offset)
    /\ pc' = "main"
    /\ UNCHANGED <<ips, country, batch, task, yielded, results, total_found,
                   sinkCalls, dispatched, fate>>
    /\ UNCHANGED <<clsVars, appVars, srcVars>>

(* The worker threads of the executor *)

\* A worker takes the next queued task (the queue is FIFO, and there are at
\* most MAX_WORKERS workers).
TaskStart ==
    /\ pc = "collect"
    /\ \E j \in DOMAIN task :
          /\ task[j].st = "queued"
          /\ \A k \in 1..(j - 1) : task[k].st # "queued"
          /\ Cardinality(Running) < MAX_WORKERS
          /\ task' = [task EXCEPT ![j].st = "running"]
          /\ dispatched' = [dispatched EXCEPT ![offset + j] = @ + 1]
    /\ UNCHANGED <<ips, country, pc, offset, batch, yielded, results,
                   total_found, sinkCalls, fate>>
    /\ UNCHANGED <<slept, clsVars, appVars, srcVars>>

\* How a finished task is remembered: "found" with a result, "failed" when every
\* GET raised, "unclassified" when a response came but no provider was detected.
FateOf(out, tried) ==
    IF \A k \in 1..Len(tried) : tried[k] = "raised" THEN "failed"
    ELSE IF out # <<>> THEN "found"
    ELSE "unclassified"

\* When the loop of scan_ip ends after the GET for protocol number p: at
\* `return ScanResult(...)` when a provider was detected, else after the last
\* protocol.  res is <<ScanResult>> or <<>>, got the outcome of the GET.
\* (First, a loop that ends as soon as a GET has returned a response: not what
\* the code does.)
ScanIpEndsOnResponse(got, res, p) == ~got.raised \/ p = Len(Protocols)

ScanIpEnds(got, res, p) == res # <<>> \/ p = Len(Protocols)

\* How one attempt of scan_ip is remembered.
Attempt(got, res) ==
    IF got.raised THEN "raised"
    ELSE IF res # <<>> THEN "classified"
    ELSE "unclassified"

\* One turn of the loop of scan_ip: the GET for the next protocol, and what
\* follows from its outcome.  A result ends the task; an exception or a
\* response without provider goes on to the next protocol, and after the last
\* one scan_ip returns None.
Probe ==
    /\ pc = "collect"
    /\ \E j \in DOMAIN task, got \in GetOutcomes :
          /\ task[j].st = "running"
          /\ \E res \in {IF got.raised THEN <<>>
                         ELSE ScanResponses[got][task[j].proto][batch[j]][country]} :
                LET p == task[j].proto
                    tried == Append(task[j].tried, Attempt(got, res))
                    last == ScanIpEnds(got, res, p)
                    out == IF res # <<>> THEN res
                           ELSE ScanIpExhausted(batch[j], country)
                IN  /\ task' = [task EXCEPT ![j] =
                                  IF last
                                  THEN [st |-> "done", proto |-> p, out |-> out,
                                        tried |-> tried]
                                  ELSE [st |-> "running", proto |-> p + 1,
                                        out |-> <<>>, tried |-> tried]]
                    /\ fate' = IF last
                               THEN [fate EXCEPT ![offset + j] = FateOf(out, tried)]
                               ELSE fate
    /\ UNCHANGED <<ips, country, pc, offset, batch, yielded, results,
                   total_found, sinkCalls, dispatched>>
    /\ UNCHANGED <<slept, clsVars, appVars, srcVars>>

(* The runs the model makes *)

CandidateLists == {[k \in 1..n |-> IpOf(k)] : n \in 0..MaxIps}

\* main has its candidate list and is about to enter its loop (line 286).
ScanInit ==
    /\ ips \in CandidateLists
    /\ country \in Countries
    /\ pc = "main"
    /\ offset = 0
    /\ batch = <<>>
    /\ task = <<>>
    /\ yielded = {}
    /\ results = <<>>
    /\ total_found = 0
    /\ sinkCalls = <<>>
    /\ dispatched = [p \in 1..Len(ips) |-> 0]
    /\ fate = [p \in 1..Len(ips) |-> "pending"]
    /\ slept = 0

ScanIdle ==
    /\ ips = <<>>
    /\ country = "FR"
    /\ pc = "idle"
    /\ offset = 0
    /\ batch = <<>>
    /\ task = <<>>
    /\ yielded = {}
    /\ results = <<>>
    /\ total_found = 0
    /\ sinkCalls = <<>>
    /\ dispatched = <<>>
    /\ fate = <<>>
    /\ slept = 0


-----------------------------------------------------------------------------
(* scanner.py: get_ip_ranges_for_country *)

\* data[:50], 10 addresses per range, 500 candidates at most.
MAX_RANGES == 50
SAMPLE_PER_RANGE == 10
MAX_IPS == 500

Digits == "0123456789"

IsDigits(s) ==
    /\ Len(s) > 0
    /\ \A i \in 1..Len(s) : Contains(SubSeq(s, i, i), Digits)

RECURSIVE ParseNat(_)
ParseNat(s) ==
    IF Len(s) = 0 THEN 0
    ELSE 10 * ParseNat(SubSeq(s, 1, Len(s) - 1))
         + (Find(SubSeq(s, Len(s), Len(s)), Digits) - 1)

\* s.split(sep) as a sequence of strings.
RECURSIVE Split(_, _)
Split(s, sep) ==
    IF Find(sep, s) = 0 THEN <<s>>
    ELSE <<SubSeq(s, 1, Find(sep, s) - 1)>>
         \o Split(SubSeq(s, Find(sep, s) + Len(sep), Len(s)), sep)

Max(a, b) == IF a > b THEN a ELSE b

(* The module ipaddress, as far as ip_network(cidr, strict=False),
   network.hosts() and str(address) go.  An address is the sequence of its
   16-bit groups, the most significant first: 2 groups for IPv4, 8 for IPv6. *)

\* _parse_octet: 1 to 3 ASCII digits, no leading zero, at most 255.
IsOctet(s) ==
    /\ IsDigits(s)
    /\ Len(s) <= 3
    /\ (Len(s) > 1 => SubSeq(s, 1, 1) # "0")
    /\ ParseNat(s) <= 255

\* _BaseV4._ip_int_from_string accepts s.
IsIPv4(s) ==
    LET parts == Split(s, ".")
    IN  Len(parts) = 4 /\ \A i \in 1..4 : IsOctet(parts[i])

\* _BaseV4._ip_int_from_string
IPv4Value(s) ==
    LET parts == Split(s, ".")
    IN  <<ParseNat(parts[1]) * 256 + ParseNat(parts[2]),
          ParseNat(parts[3]) * 256 + ParseNat(parts[4])>>

HexDigits == "0123456789abcdef"

\* _parse_hextet accepts s: 1 to 4 hexadecimal digits of either case.
IsHextet(s) ==
    /\ Len(s) \in 1..4
    /\ \A i \in 1..Len(s) : Contains(LowerChar(SubSeq(s, i, i)), HexDigits)

\* int(s, 16)
RECURSIVE ParseHex(_)
ParseHex(s) ==
    IF Len(s) = 0 THEN 0
    ELSE 16 * ParseHex(SubSeq(s, 1, Len(s) - 1))
         + (Find(LowerChar(SubSeq(s, Len(s), Len(s))), HexDigits) - 1)

\* '%x' % n
RECURSIVE Hex(_)
Hex(n) ==
    IF n < 16 THEN SubSeq(HexDigits, n + 1, n + 1)
    ELSE Hex(n \div 16) \o SubSeq(HexDigits, (n % 16) + 1, (n % 16) + 1)

\* _split_scope_id: ip_str.partition('%'); a scope id that is empty or holds
\* a '%' is refused.
ScopeOk(s) ==
    Find("%", s) # 0 =>
        LET scope == SubSeq(s, Find("%", s) + 1, Len(s))
        IN  Len(scope) > 0 /\ Find("%", scope) = 0

ScopeOf(s) == IF Find("%", s) = 0 THEN "" ELSE SubSeq(s, Find("%", s) + 1, Len(s))

WithoutScope(s) == IF Find("%", s) = 0 THEN s ELSE SubSeq(s, 1, Find("%", s) - 1)

\* _BaseV6._ip_int_from_string, the parts of ip_str.split(':') once a dotted
\* quad at the end has been replaced by its two groups in hexadecimal.
V6Parts(s) ==
    LET parts == Split(s, ":")
        last == parts[Len(parts)]
    IN  IF Contains(".", last) /\ IsIPv4(last)
        THEN SubSeq(parts, 1, Len(parts) - 1)
             \o <<Hex(IPv4Value(last)[1]), Hex(IPv4Value(last)[2])>>
        ELSE parts

\* _BaseV6._ip_int_from_string, where the '::' stands: [ok, hi, lo] with hi
\* the number of groups written before it and lo the number written after it
\* (hi = all of them and lo = 0 when there is no '::').
V6Layout(parts) ==
    LET n == Len(parts)
        skips == {i \in 2..(n - 1) : parts[i] = ""}
    IN  IF n < 3 \/ n > 9 \/ Cardinality(skips) > 1
        THEN [ok |-> FALSE, hi |-> 0, lo |-> 0]
        ELSE IF skips = {}
        THEN [ok |-> n = 8 /\ parts[1] # "" /\ parts[n] # "", hi |-> n, lo |-> 0]
        ELSE LET s == CHOOSE i \in skips : TRUE
                 hi == IF parts[1] = "" THEN s - 2 ELSE s - 1
                 lo == IF parts[n] = "" THEN n - s - 1 ELSE n - s
             IN  [ok |-> /\ (parts[1] = "" => hi = 0)
                         /\ (parts[n] = "" => lo = 0)
                         /\ 8 - (hi + lo) >= 1,
                  hi |-> hi, lo |-> lo]

\* _BaseV6._ip_int_from_string accepts s (the scope id is already split off).
IsIPv6(s) ==
    LET raw == Split(s, ":")
    IN  /\ Len(raw) >= 3
        /\ Contains(".", raw[Len(raw)]) => IsIPv4(raw[Len(raw)])
        /\ LET parts == V6Parts(s)
               lay == V6Layout(parts)
           IN  /\ lay.ok
               /\ \A i \in 1..lay.hi : IsHextet(parts[i])
               /\ \A i \in (Len(parts) - lay.lo + 1)..Len(parts) : IsHextet(parts[i])

\* _BaseV6._ip_int_from_string
IPv6Value(s) ==
    LET parts == V6Parts(s)
        lay == V6Layout(parts)
    IN  [j \in 1..8 |->
            IF j <= lay.hi THEN ParseHex(parts[j])
            ELSE IF j > 8 - lay.lo THEN ParseHex(parts[Len(parts) - (8 - j)])
            ELSE 0]

\* int(s) for a string of digits, as far as the comparison with a maximal
\* prefix length needs it: 1000 stands for every larger value.
RECURSIVE StripZeros(_)
StripZeros(s) ==
    IF Len(s) > 1 /\ SubSeq(s, 1, 1) = "0" THEN StripZeros(SubSeq(s, 2, Len(s)))
    ELSE s

PrefixValue(s) == IF Len(StripZeros(s)) > 3 THEN 1000 ELSE ParseNat(StripZeros(s))

\* The bits of group j (1 the most significant) that a prefix of p bits covers.
Kept(p, j) == Min(16, Max(0, p - 16 * (j - 1)))

\* _ip_int_from_prefix: the netmask of p bits, over n groups.
Netmask(p, n) == [j \in 1..n |-> 65536 - 2 ^ (16 - Kept(p, j))]

\* ip_int ^ _ALL_ONES
Complement(g) == [j \in 1..Len(g) |-> 65535 - g[j]]

\* _prefix_from_ip_int does not raise: ones, then zeros.
IsNetmask(g) == \E p \in 0..32 : \A j \in 1..2 : g[j] = Netmask(p, 2)[j]

\* _prefix_from_ip_int
NetmaskLen(g) == CHOOSE p \in 0..32 : \A j \in 1..2 : g[j] = Netmask(p, 2)[j]

\* IPv4Network._make_netmask accepts the text after the '/': a prefix length
\* in decimal, else a netmask or a hostmask in dotted quad form.
IsV4Mask(s) ==
    IF IsDigits(s) THEN PrefixValue(s) <= 32
    ELSE /\ IsIPv4(s)
         /\ IsNetmask(IPv4Value(s)) \/ IsNetmask(Complement(IPv4Value(s)))

V4MaskLen(s) ==
    IF IsDigits(s) THEN PrefixValue(s)
    ELSE IF IsNetmask(IPv4Value(s)) THEN NetmaskLen(IPv4Value(s))
    ELSE NetmaskLen(Complement(IPv4Value(s)))

\* IPv6Network._make_netmask accepts the text after the '/': a prefix length
\* in decimal only.
IsV6Mask(s) == IsDigits(s) /\ PrefixValue(s) <= 128

\* _split_optional_netmask: str(address).split('/'), at most one '/'.
IsV4Cidr(cidr) ==
    LET parts == Split(cidr, "/")
    IN  /\ Len(parts) \in {1, 2}
        /\ IsIPv4(parts[1])
        /\ Len(parts) = 2 => IsV4Mask(parts[2])

IsV6Cidr(cidr) ==
    LET parts == Split(cidr, "/")
    IN  /\ Len(parts) \in {1, 2}
        /\ ScopeOk(parts[1])
        /\ IsIPv6(WithoutScope(parts[1]))
        /\ Len(parts) = 2 => IsV6Mask(parts[2])

\* ipaddress.ip_network(cidr, strict=False) returns a network: IPv4Network is
\* tried first, then IPv6Network; when both refuse the text, ValueError.
IsCidr(cidr) == IsV4Cidr(cidr) \/ IsV6Cidr(cidr)

\* The IPv4Network made of the two sides of the '/': the address as written,
\* and the prefix length, 32 when there is no '/'.
V4Network(parts) ==
    [bits |-> 32,
     address |-> IPv4Value(parts[1]),
     scope |-> "",
     prefix |-> IF Len(parts) = 1 THEN 32 ELSE V4MaskLen(parts[2])]

\* The IPv6Network made of the two sides of the '/'.
V6Network(parts) ==
    [bits |-> 128,
     address |-> IPv6Value(WithoutScope(parts[1])),
     scope |-> ScopeOf(parts[1]),
     prefix |-> IF Len(parts) = 1 THEN 128 ELSE PrefixValue(parts[2])]

\* network = ipaddress.ip_network(cidr, strict=False), for a text that IsCidr
\* accepts: max_prefixlen, the address written before the '/' (its groups and
\* its scope id) and prefixlen.
Network(cidr) ==
    IF IsV4Cidr(cidr) THEN V4Network(Split(cidr, "/"))
    ELSE V6Network(Split(cidr, "/"))

\* network.network_address: strict=False clears the host bits.
NetworkAddress(net) ==
    [j \in 1..Len(net.address) |->
        net.address[j] - (net.address[j] % (2 ^ (16 - Kept(net.prefix, j))))]

\* The host bits of the network.
HostBits(net) == net.bits - net.prefix

(* A count of hosts, or an index into the list of hosts, can exceed what one
   integer holds: like an address it is the sequence of its 16-bit groups,
   the most significant first, as many groups as the address has. *)

\* The number i, 0 <= i < 65536, over len groups.
Number(i, len) == [j \in 1..len |-> IF j = len THEN i ELSE 0]

\* a < b
RECURSIVE Less(_, _)
Less(a, b) ==
    IF Len(a) = 0 THEN FALSE
    ELSE IF a[1] # b[1] THEN a[1] < b[1]
    ELSE Less(Tail(a), Tail(b))

\* (r * 65536^Len(g) + g) // d, for 0 <= r < d <= 10
RECURSIVE DivSmall(_, _, _)
DivSmall(g, d, r) ==
    IF Len(g) = 0 THEN <<>>
    ELSE <<(r * 65536 + g[1]) \div d>>
         \o DivSmall(Tail(g), d, (r * 65536 + g[1]) % d)

\* g * k + c, for 0 <= k < 10
RECURSIVE Times(_, _, _)
Times(g, k, c) ==
    IF Len(g) = 0 THEN <<>>
    ELSE Times(SubSeq(g, 1, Len(g) - 1), k, (g[Len(g)] * k + c) \div 65536)
         \o <<(g[Len(g)] * k + c) % 65536>>

\* a + b + c
RECURSIVE Plus(_, _, _)
Plus(a, b, c) ==
    IF Len(a) = 0 THEN <<>>
    ELSE Plus(SubSeq(a, 1, Len(a) - 1), SubSeq(b, 1, Len(b) - 1),
              (a[Len(a)] + b[Len(b)] + c) \div 65536)
         \o <<(a[Len(a)] + b[Len(b)] + c) % 65536>>

\* hosts = list(network.hosts()) builds one object per host, and whether the
\* process gets the memory for them is not the program's to decide: the list
\* is built when the memory is granted and list() raises MemoryError when it
\* is not.  A list of more than 2^MaxListBits hosts is more than a list of
\* CPython can hold: it is never granted.
MaxListBits == 60

ListFits(net, granted) == granted /\ HostBits(net) <= MaxListBits

\* len(hosts): an IPv4 network without its network and broadcast addresses,
\* an IPv6 network without its first address; both addresses of a network
\* with one host bit, the address of a network with none.
HostCount(net) ==
    IF HostBits(net) <= 1 THEN Number(HostBits(net) + 1, Len(net.address))
    ELSE [j \in 1..Len(net.address) |->
             2 ^ (16 - Kept(net.prefix, j)) - 1
             - (IF j = Len(net.address) /\ net.bits = 32 THEN 1 ELSE 0)]

\* address + n, for 0 <= n < 65536
RECURSIVE AddOffset(_, _)
AddOffset(g, n) ==
    IF Len(g) = 0 THEN <<>>
    ELSE LET s == g[Len(g)] + n
         IN  AddOffset(SubSeq(g, 1, Len(g) - 1), s \div 65536) \o <<s % 65536>>

\* IPv4Address._string_from_ip_int
V4Str(g) ==
    ToString(g[1] \div 256) \o "." \o ToString(g[1] % 256) \o "."
    \o ToString(g[2] \div 256) \o "." \o ToString(g[2] % 256)

\* ':'.join(hextets)
RECURSIVE JoinHex(_)
JoinHex(g) ==
    IF Len(g) = 0 THEN ""
    ELSE IF Len(g) = 1 THEN Hex(g[1])
    ELSE Hex(g[1]) \o ":" \o JoinHex(SubSeq(g, 2, Len(g)))

\* The groups from number i on that are 0, counted up to the first that is not.
RECURSIVE ZeroRun(_, _)
ZeroRun(g, i) ==
    IF i > Len(g) \/ g[i] # 0 THEN 0 ELSE 1 + ZeroRun(g, i + 1)

\* _compress_hextets: the longest run of groups that are 0, the leftmost of
\* the longest, is written "::" when it is longer than one group.
V6Str(g) ==
    LET best == CHOOSE i \in 1..8 :
                    \A k \in 1..8 :
                        \/ ZeroRun(g, k) < ZeroRun(g, i)
                        \/ (ZeroRun(g, k) = ZeroRun(g, i) /\ i <= k)
        len == ZeroRun(g, best)
    IN  IF len > 1
        THEN JoinHex(SubSeq(g, 1, best - 1)) \o "::"
             \o JoinHex(SubSeq(g, best + len, 8))
        ELSE JoinHex(g)

\* str(address); an IPv6 address that has a scope id ends with '%' and it.
IpStr(g, scope) ==
    IF Len(g) = 2 THEN V4Str(g)
    ELSE IF scope = "" THEN V6Str(g)
    ELSE V6Str(g) \o "%" \o scope

\* str(hosts[i]), i counted from 0.  The hosts of a network with host bits
\* are made from integers and have no scope id; the host of a network without
\* host bits is the address as written.
HostStr(net, i) ==
    IF HostBits(net) = 0 THEN IpStr(net.address, net.scope)
    ELSE IpStr(AddOffset(Plus(NetworkAddress(net), i, 0),
                         IF HostBits(net) = 1 THEN 0 ELSE 1), "")

\* list[:n]
Take(list, n) == SubSeq(list, 1, Min(n, Len(list)))

\* [str(hosts[i]) for i in range(0, len(hosts), step)][:10]: the indices are
\* the multiples of step below len(hosts), the first 10 of them.
StrideHosts(net, n, step) ==
    [k \in 1..Cardinality({q \in 0..(SAMPLE_PER_RANGE - 1) :
                              Less(Times(step, q, 0), n)}) |->
        HostStr(net, Times(step, k - 1, 0))]

\* if len(hosts) > 10: step = len(hosts) // 10;
\*     sample = [str(hosts[i]) for i in range(0, len(hosts), step)][:10]
\* else: sample = [str(h) for h in hosts[:10]]
SampleHosts(net, n) ==
    IF Less(Number(SAMPLE_PER_RANGE, Len(n)), n)
    THEN StrideHosts(net, n, DivSmall(n, SAMPLE_PER_RANGE, 0))
    ELSE [k \in 1..Min(SAMPLE_PER_RANGE, n[Len(n)]) |->
             HostStr(net, Number(k - 1, Len(n)))]

\* Lines 250 to 257 for a range that does not raise: the sample of the range.
Sample(cidr) == SampleHosts(Network(cidr), HostCount(Network(cidr)))

\* The inner try block raises (and the range is skipped by except: continue)
\* when the name ipaddress is not bound, ip_network rejects the text, or the
\* list of hosts cannot be built.
RangeRaises(cidr, names, granted) ==
    \/ "ipaddress" \notin names
    \/ ~IsCidr(cidr)
    \/ ~ListFits(Network(cidr), granted)

\* The loop over data[:50] from entry k on; acc is the list ips, and mem says
\* for each entry whether the memory for its list of hosts is granted.
RECURSIVE CollectRanges(_, _, _, _, _)
CollectRanges(data, k, acc, names, mem) ==
    IF k > Min(Len(data), MAX_RANGES) THEN acc
    ELSE IF data[k].range = "" THEN CollectRanges(data, k + 1, acc, names, mem)
    ELSE IF RangeRaises(data[k].range, names, mem[k])
         THEN CollectRanges(data, k + 1, acc, names, mem)
    ELSE LET next == acc \o Sample(data[k].range)
         IN  IF Len(next) >= MAX_IPS THEN next
             ELSE CollectRanges(data, k + 1, next, names, mem)

\* Reading a module-level name that nothing binds raises NameError.
Unbound(name, names) == name \notin names

\* get_ip_ranges_for_country: [raised, ips].  The read of IPINFO_TOKEN at
\* line 224 is outside every try block; everything after line 228 is inside
\* one that returns [].
get_ip_ranges_for_country(names, tok, reply, mem) ==
    IF Unbound("IPINFO_TOKEN", names) THEN [raised |-> TRUE, ips |-> <<>>]
    ELSE IF tok = "" THEN [raised |-> FALSE, ips |-> <<>>]
    ELSE IF reply.kind # "ranges" THEN [raised |-> FALSE, ips |-> <<>>]
    ELSE [raised |-> FALSE,
          ips |-> Take(CollectRanges(reply.data, 1, <<>>, names, mem),
                      MAX_IPS)]

(* What the call can meet *)

MaxRanges == 2      \* ranges in the upstream's answer

\* Prefix length, netmask and hostmask forms, host bits set, IPv6, a network
\* whose list of hosts may or may not fit in memory, one whose list never
\* does, a text that is no network, an empty text.
RangeTexts ==
    {"10.0.0.0/28", "10.0.0.8/255.255.255.248", "10.0.1.77/0.0.0.255",
     "2001:db8::/126", "0.0.0.0/4", "2001:db8::/64", "bad", ""}

RangeLists == UNION {[1..n -> {[range |-> c] : c \in RangeTexts}] : n \in 0..MaxRanges}

\* requests.get raises; a status other than 200; a body that is not JSON; a
\* JSON body that is not a list; a list of {"range": ...} entries.
Replies ==
    {[kind |-> "transport error"], [kind |-> "401"], [kind |-> "403"],
     [kind |-> "429"], [kind |-> "not json"], [kind |-> "not a list"]}
    \cup {[kind |-> "ranges", data |-> d] : d \in RangeLists}

\* The names among IPINFO_TOKEN and ipaddress that the module scanner.py
\* binds when main runs: it assigns no IPINFO_TOKEN and does not import
\* ipaddress.
ModuleNames == {}

\* What the process can be granted while it serves the reply: for each range,
\* whether the memory for its list of hosts is there.
Grants(reply) ==
    IF reply.kind # "ranges" THEN {<<>>}
    ELSE [1..Len(reply.data) -> BOOLEAN]

SrcInit ==
    /\ upstream \in Replies
    /\ memory \in Grants(upstream)

SrcIdle ==
    /\ upstream = [kind |-> "transport error"]
    /\ memory = <<>>

\* main, line 282: ips = get_ip_ranges_for_country(country); a NameError ends
\* main with a traceback.
SourceCall ==
    /\ pc = "start"
    /\ LET r == get_ip_ranges_for_country(ModuleNames, "", upstream, memory)
       IN  IF r.raised
           THEN /\ pc' = "crashed"
                /\ UNCHANGED <<ips, dispatched, fate>>
           ELSE /\ pc' = "main"
                /\ ips' = r.ips
                /\ dispatched' = [p \in 1..Len(r.ips) |-> 0]
                /\ fate' = [p \in 1..Len(r.ips) |-> "pending"]
    /\ UNCHANGED <<country, offset, batch, task, yielded, results,
                   total_found, sinkCalls>>
    /\ UNCHANGED <<slept, clsVars, appVars, srcVars>>

vars == <<clsVars, appVars, scanVars, srcVars>>

\* detect_provider alone.
InitDetect == ClsInit /\ AppIdle /\ ScanIdle /\ SrcIdle

\* main up to its loop: the call of get_ip_ranges_for_country.
InitSource ==
    /\ ClsIdle /\ AppIdle /\ SrcInit
    /\ ips = <<>>
    /\ country \in Countries
    /\ pc = "start"
    /\ offset = 0
    /\ batch = <<>>
    /\ task = <<>>
    /\ yielded = {}
    /\ results = <<>>
    /\ total_found = 0
    /\ sinkCalls = <<>>
    /\ dispatched = <<>>
    /\ fate = <<>>
    /\ slept = 0

SpecSource == InitSource /\ [][SourceCall]_vars

SpecDetect == InitDetect /\ [][Classify]_vars

\* The scanner from the loop of main on, for every candidate list.
InitScan == ClsIdle /\ AppIdle /\ ScanInit /\ SrcIdle

NextScan ==
    \/ MainLoop
    \/ TaskStart
    \/ Probe
    \/ Collect
    \/ PoolExit
    \/ PostStart
    \/ PostSkipped
    \/ PostEnd
    \/ BatchReturn
    \/ Sleep

SpecScan == InitScan /\ [][NextScan]_vars

\* The same, with the scheduling the code relies on: a thread that can take a
\* step takes one.  Every GET returns or raises within TIMEOUT, requests.post
\* within its timeout of 10 seconds, and time.sleep(1) ends.
SpecScanFair == InitScan /\ [][NextScan]_vars /\ WF_vars(NextScan)

\* The API alone, its requests served side by side.
InitStore == ClsIdle /\ AppInit /\ ScanIdle /\ SrcIdle

NextStore ==
    \/ AddResults
    \/ StartInsert
    \/ ExecuteInsert
    \/ DeadlockDetected
    \/ CommitAndAnswer
    \/ ToggleSelection
    \/ ToggleCommit

SpecStore == InitStore /\ [][NextStore]_vars

-----------------------------------------------------------------------------
(* Claims about detect_provider *)

\* Provider number i matches: a header signature in the flattened headers or
\* a domain signature in the hostname, both compared in lower case.
ProviderMatches(i, headers, domain) ==
    \/ \E j \in 1..Len(PROVIDERS[i].headers) :
          Contains(Lower(PROVIDERS[i].headers[j]), headers_str(headers))
    \/ \E j \in 1..Len(PROVIDERS[i].domains) :
          Contains(Lower(PROVIDERS[i].domains[j]), Lower(domain))

FirstMatching(headers, domain) ==
    LET M == {i \in 1..Len(PROVIDERS) : ProviderMatches(i, headers, domain)}
    IN  IF M = {} THEN None
        ELSE PROVIDERS[CHOOSE i \in M : \A k \in M : i <= k].key

ProviderIndex(key) == CHOOSE i \in 1..Len(PROVIDERS) : PROVIDERS[i].key = key

\* C4: detect_provider returns the first provider of the registry, in
\* insertion order, one of whose header signatures is in the flattened headers
\* or one of whose domain signatures is in the hostname (case-insensitive), and
\* None when there is none; heroku wins over aws when both match; no headers
\* and hostname "app.up.railway.app" give "railway".
C4_FirstMatchWins ==
    clsOut # <<>> =>
        /\ clsOut[1] = FirstMatching(clsHeaders, clsDomain)
        /\ (/\ ProviderMatches(ProviderIndex("heroku"), clsHeaders, clsDomain)
            /\ ProviderMatches(ProviderIndex("aws"), clsHeaders, clsDomain))
           => clsOut[1] = "heroku"
        /\ (clsHeaders = <<>> /\ clsDomain = "app.up.railway.app")
           => clsOut[1] = "railway"

\* heroku matches by its domain signature only, aws by a header signature, and
\* the call has returned.
C4_Witness ==
    /\ clsOut = <<"heroku">>
    /\ ~AnyPatternIn(PatternsLower[1].headers, headers_str(clsHeaders))
    /\ ProviderMatches(ProviderIndex("aws"), clsHeaders, clsDomain)

-----------------------------------------------------------------------------
(* Claims about add_results *)

\* Request i is answered in this step.
Answers(i) == txn[i].resp = <<>> /\ txn'[i].resp # <<>>

\* Rows a and b hold the same (ip, domain) pair, a NULL domain counting as a
\* value.
SamePair(a, b) == a.ip = b.ip /\ a.domain = b.domain

\* C1: whatever add_results calls are made, the table holds at most one row
\* for each (ip, domain) pair, a pair with no domain included, and a call
\* leaves every row that was stored before it as it was.
C1_OneRowPerPair ==
    /\ [](\A i, j \in 1..Len(store) : SamePair(store[i], store[j]) => i = j)
    /\ [][\A i \in AddRequests :
            Answers(i) =>
                \A j \in 1..Len(store) : j <= Len(store') /\ store'[j] = store[j]]_vars

\* C2: the 'added' count of an accepted add_results call is the number of rows
\* the table gained by the call.
C2_AddedIsRowsGained ==
    [][\A i \in AddRequests :
          (Answers(i) /\ txn'[i].resp[1].status = 200) =>
              txn'[i].resp[1].added = Len(store') - Len(store)]_vars

\* C3: an add_results request whose api_key is not the configured key is
\* answered 401 at once, and the step that serves it leaves the table and the
\* sequence as they were.
C3_BadKeyRejected ==
    [][\A i \in AddRequests :
          (txn'[i].op = "add_results" /\ txn'[i].req.api_key # API_KEY) =>
              /\ txn'[i].resp = <<[status |-> 401, added |-> 0]>>
              /\ txn'[i].rows = <<>>
              /\ txn'[i] # txn[i] => (store' = store /\ idSeq' = idSeq)]_vars

\* Record r would be inserted into the rows given, were it executed.
Insertable(r, rows) ==
    /\ ~RaisesKeyError(r)
    /\ ~NotNullViolation(r)
    /\ \A j \in 1..Len(rows) : ~ConflictsWith(rows[j], r.ip, DictGet(Field(r, "domain"), None))

\* A request with a wrong key whose batch holds only records that an accepted
\* request would have inserted has been answered, on a table that holds a row.
C3_Witness ==
    \E i \in AddRequests :
        /\ txn[i].op = "add_results"
        /\ txn[i].req.api_key # API_KEY
        /\ txn[i].resp # <<>>
        /\ Len(txn[i].req.results) > 0
        /\ \A k \in 1..Len(txn[i].req.results) : Insertable(txn[i].req.results[k], store)
        /\ Len(store) > 0

-----------------------------------------------------------------------------
(* Claims about the reporter: scan_batch, send_to_api and the loop of main *)

NumCalls == Len(sinkCalls)

CallSizes == [k \in 1..NumCalls |-> Len(sinkCalls[k].records)]

\* The candidate positions whose task returned a result.
Found == {p \in DOMAIN fate : fate[p] = "found"}

\* Those among the candidates ips[off : off + BATCH_SIZE].
FoundIn(off) == {p \in Found : off < p /\ p <= off + BATCH_SIZE}

\* The offset of the last group of candidates.
LastOffset ==
    IF Len(ips) = 0 THEN 0 ELSE BATCH_SIZE * ((Len(ips) - 1) \div BATCH_SIZE)

CallsAt(off) == {k \in 1..NumCalls : sinkCalls[k].at = off}

\* How often the candidate at position p appears in the calls made.
TimesReported(p) ==
    Cardinality({<<k, n>> \in (1..NumCalls) \X (1..BATCH_SIZE) :
                    /\ n <= Len(sinkCalls[k].records)
                    /\ sinkCalls[k].records[n].ip = ips[p]})

\* B, ..., B, then n mod B when that is not zero.
FullThenRest(n) ==
    [k \in 1..(n \div BATCH_SIZE) |-> BATCH_SIZE]
    \o (IF n % BATCH_SIZE > 0 THEN <<n % BATCH_SIZE>> ELSE <<>>)

\* The result counts of the groups of candidates from offset off on, the
\* groups without result left out.
RECURSIVE GroupCounts(_)
GroupCounts(off) ==
    IF off >= Len(ips) THEN <<>>
    ELSE (IF FoundIn(off) # {} THEN <<Cardinality(FoundIn(off))>> ELSE <<>>)
         \o GroupCounts(off + BATCH_SIZE)

\* C5: every call to the sink carries at most BATCH_SIZE records.
C5_CallWithinBatchSize ==
    \A k \in 1..NumCalls : Len(sinkCalls[k].records) <= BATCH_SIZE

\* A call with exactly BATCH_SIZE records, in a run with more candidates.
C5_Witness ==
    /\ Len(ips) > BATCH_SIZE
    /\ \E k \in 1..NumCalls : Len(sinkCalls[k].records) = BATCH_SIZE

\* C6 as stated: a call each time BATCH_SIZE results have accumulated and one for
\* the remainder, so that R results are sent as B, ..., B, R mod B whichever
\* candidates did not classify in between.
C6_FlushOnResultCount ==
    pc = "done" => CallSizes = FullThenRest(Cardinality(Found))

\* C6 as amended: one call per group of BATCH_SIZE consecutive candidates,
\* carrying the results of that group, none for a group without results; for
\* candidates that all classify that is B, ..., B, then N mod B.
C6_FlushPerCandidateGroup ==
    pc = "done" =>
        /\ CallSizes = GroupCounts(0)
        /\ \A k \in 1..NumCalls :
              Len(sinkCalls[k].records) = Cardinality(FoundIn(sinkCalls[k].at))
        /\ Found = DOMAIN ips => CallSizes = FullThenRest(Len(ips))

\* A finished run in which a candidate of the first group did not classify and
\* both groups were sent.
C6_Witness ==
    /\ pc = "done"
    /\ NumCalls = 2
    /\ Cardinality(FoundIn(0)) < BATCH_SIZE
    /\ Len(ips) > BATCH_SIZE

\* C7 as stated: at the end of a (non-empty) candidate set the remainder is
\* flushed exactly once, even when it holds no result.
C7_FinalFlushAlways ==
    (pc = "done" /\ Len(ips) > 0) => Cardinality(CallsAt(LastOffset)) = 1

\* C7 as amended: the results of the last group are sent exactly once when there
\* is at least one, and no call is made for it when there is none; no call
\* carries zero records.
C7_FinalFlushWhenNonEmpty ==
    /\ \A k \in 1..NumCalls : Len(sinkCalls[k].records) > 0
    /\ (pc = "done" /\ Len(ips) > 0) =>
          Cardinality(CallsAt(LastOffset)) =
              (IF FoundIn(LastOffset) # {} THEN 1 ELSE 0)

\* A finished run whose last group gave no result, after an earlier group
\* that did.
C7_Witness ==
    /\ pc = "done"
    /\ Len(ips) > BATCH_SIZE
    /\ FoundIn(LastOffset) = {}
    /\ NumCalls > 0

\* C8: a failed sink call does not abort the run and is not retried: no group
\* is sent twice, no record is sent twice, and by the end of the run every
\* candidate was probed and every group with results was sent.
C8_SinkFailureTolerated ==
    /\ pc # "crashed"
    /\ \A k, l \in 1..NumCalls : sinkCalls[k].at = sinkCalls[l].at => k = l
    /\ \A p \in DOMAIN ips : TimesReported(p) <= 1
    /\ pc = "done" =>
          /\ \A p \in DOMAIN ips : dispatched[p] = 1
          /\ \A p \in Found : TimesReported(p) = 1

\* A finished run in which a call failed with a transport error, another with
\* an authorization error or the like came back, and a later group was sent.
C8_Witness ==
    /\ pc = "done"
    /\ \E k, l \in 1..NumCalls :
          /\ k < l
          /\ sinkCalls[k].outcome = "error"
          /\ sinkCalls[l].outcome \in {"200", "401"}

\* C9: a candidate all of whose GETs raise gives no result and no crash, and the
\* other candidates are still probed and, when classified, reported.
C9_FailedCandidateIsolated ==
    /\ pc # "crashed"
    /\ \A j \in DOMAIN task :
          (/\ task[j].st = "done"
           /\ \A n \in 1..Len(task[j].tried) : task[j].tried[n] = "raised")
          => task[j].out = <<>>
    /\ \A p \in DOMAIN ips :
          fate[p] = "failed" =>
              /\ TimesReported(p) = 0
              /\ \A n \in 1..Len(results) : results[n].ip # ips[p]
    /\ pc = "done" =>
          \A p \in DOMAIN ips :
              /\ fate[p] # "pending"
              /\ fate[p] = "found" => TimesReported(p) = 1

\* A finished run in which the first candidate failed on both protocols, the
\* next one of the same group was reported, and so was one of a later group.
C9_Witness ==
    /\ pc = "done"
    /\ Len(ips) > BATCH_SIZE
    /\ fate[1] = "failed"
    /\ fate[2] = "found" /\ TimesReported(2) = 1
    /\ \E p \in DOMAIN ips : p > BATCH_SIZE /\ fate[p] = "found" /\ TimesReported(p) = 1

-----------------------------------------------------------------------------
(* Claims about the candidate source *)

\* C10: get_ip_ranges_for_country never raises: whatever the upstream's
\* answer, main gets a list (the empty one when the upstream gave no ranges)
\* and goes on to its loop.
C10_SourceNeverRaises ==
    /\ pc # "crashed"
    /\ (pc = "main" /\ upstream.kind # "ranges") => ips = <<>>

\* The addresses the sampling rule names for a range with n usable hosts: all
\* of them when n <= 10, else those at indices 0, s, 2s, ..., 9s with
\* s = floor(n / 10).
StrideOf(net, n) ==
    IF ~Less(Number(10, Len(n)), n)
    THEN [k \in 1..n[Len(n)] |-> HostStr(net, Number(k - 1, Len(n)))]
    ELSE [k \in 1..10 |-> HostStr(net, Times(DivSmall(n, 10, 0), k - 1, 0))]

StrideOfNetwork(net) == StrideOf(net, HostCount(net))

StrideSample(cidr) == StrideOfNetwork(Network(cidr))

\* The samples of the well-formed ranges among the first 50 entries, in order,
\* up to the range that reaches the cap.
RECURSIVE StrideSamples(_, _, _)
StrideSamples(data, k, acc) ==
    IF k > Len(data) \/ k > 50 \/ Len(acc) >= 500 THEN acc
    ELSE StrideSamples(data, k + 1,
            IF data[k].range # "" /\ IsCidr(data[k].range)
            THEN acc \o StrideSample(data[k].range) ELSE acc)

\* C12: once the call of get_ip_ranges_for_country is over, it has taken from
\* each range with n usable hosts min(n, 10) addresses, all hosts when n <= 10
\* and else those at indices 0, s, ..., 9s with s = floor(n / 10), and the
\* list of candidates holds at most 500 of them.
C12_StrideSamplePerRange ==
    (pc # "start" /\ upstream.kind = "ranges") =>
        /\ Len(ips) <= 500
        /\ ips = Take(StrideSamples(upstream.data, 1, <<>>), 500)


-----------------------------------------------------------------------------
(* Claims about scan_ip *)

\* The tasks of the current group that a worker has taken.
Started == {j \in DOMAIN task : task[j].st \in {"running", "done"}}

\* C13, as stated: once the http GET has returned a response, https is not
\* attempted; https is attempted only when the http GET failed.
C13_HttpResponseDecides ==
    \A j \in Started :
        Len(task[j].tried) = 2 => task[j].tried[1] = "raised"

\* C13: scan_ip tries http then https and the first classified response wins:
\* a response in which a provider is detected ends the scan with that result
\* and nothing is tried after it; https is tried exactly when http gave no
\* result, whether its GET failed or its response was not classified; without
\* a classified response both protocols are tried and there is no result.
C13_FirstClassifiedWins ==
    \A j \in Started :
        LET t == task[j].tried
        IN  /\ Len(t) <= Len(Protocols)
            /\ \A k \in 1..Len(t) : t[k] = "classified" => k = Len(t)
            /\ task[j].st = "running" =>
                  /\ task[j].proto = Len(t) + 1
                  /\ \A k \in 1..Len(t) : t[k] \in {"raised", "unclassified"}
            /\ task[j].st = "done" =>
                  /\ Len(t) >= 1
                  /\ task[j].out # <<>> <=> t[Len(t)] = "classified"
                  /\ task[j].out = <<>> => Len(t) = Len(Protocols)

\* A task whose http GET returned a response without a detectable provider and
\* whose https GET then gave the result.
C13_Witness ==
    \E j \in DOMAIN task :
        /\ task[j].st = "done"
        /\ task[j].tried = <<"unclassified", "classified">>
        /\ task[j].out # <<>>


\* The settings the failure policy is said to have.  scanner.py reads
\* API_ENDPOINT, API_KEY and SCAN_COUNTRY from its environment and nothing
\* else: whatever such a setting is, scan_ip runs the same code.
FailurePolicies == {"drop", "retain"}

\* The tasks that ended with every GET raising.
AllFailed ==
    {j \in DOMAIN task :
        /\ task[j].st = "done"
        /\ \A k \in 1..Len(task[j].tried) : task[j].tried[k] = "raised"}

\* C14: when every attempt for a candidate ends in transport failure, the
\* candidate is dropped under the one setting and under the other it is kept
\* and gives a result with status code 0.
C14_BothPoliciesSupported ==
    \A policy \in FailurePolicies :
        \A j \in AllFailed :
            IF policy = "retain"
            THEN task[j].out # <<>> /\ task[j].out[1].status_code = 0
            ELSE task[j].out = <<>>


-----------------------------------------------------------------------------
(* Claims about the coordination of probing and reporting *)

\* A call of requests.post that has not come back.
InFlight == {k \in 1..NumCalls : sinkCalls[k].outcome = "in flight"}

\* The tasks of the current group that are queued or running.
Unfinished == {j \in DOMAIN task : task[j].st \in {"queued", "running"}}

\* C15: the sink is called by the coordinating thread only, after every task
\* of the group has finished and the pool is gone: no task is queued or running
\* from the end of the with block to the return of scan_batch, a call is in
\* flight only while the coordinating thread is in send_to_api, and no
\* candidate of a later group has been handed to a worker before then.
C15_SinkCallAfterPoolDrain ==
    /\ pc \in {"pool_closed", "posting", "returning"} =>
          /\ Unfinished = {}
          /\ \A j \in DOMAIN task : task[j].st = "consumed"
    /\ Unfinished # {} => pc = "collect"
    /\ InFlight # {} <=> pc = "posting"
    /\ InFlight \subseteq {NumCalls}
    /\ \A k \in 1..NumCalls : sinkCalls[k].at <= offset
    /\ \A p \in DOMAIN ips :
          dispatched[p] > 0 => p <= offset + BATCH_SIZE
    /\ pc \in {"pool_closed", "posting", "returning", "sleeping"} =>
          \A p \in DOMAIN ips : p > offset + BATCH_SIZE => dispatched[p] = 0

\* The sink call of the second group is in flight, after tasks of that group
\* have run.
C15_Witness ==
    /\ pc = "posting"
    /\ offset = BATCH_SIZE
    /\ NumCalls = 2
    /\ InFlight = {2}
    /\ task # <<>>
    /\ \A p \in DOMAIN ips : dispatched[p] = 1


\* C16: the run ends, and by then every candidate of the list has been handed
\* to exactly one task, which ran to its end (a result, no provider, or failure
\* of every GET); at no time has a candidate been handed out twice.
C16_EveryCandidateOnce ==
    /\ [](\A p \in DOMAIN ips : dispatched[p] <= 1)
    /\ <>[](/\ pc = "done"
            /\ \A p \in DOMAIN ips : dispatched[p] = 1 /\ fate[p] # "pending")

\* A finished run over a full candidate list with a task of each kind.
C16_Witness ==
    /\ pc = "done"
    /\ Len(ips) = MaxIps
    /\ \A p \in DOMAIN ips : dispatched[p] = 1
    /\ \E p, q, r \in DOMAIN ips :
          fate[p] = "failed" /\ fate[q] = "found" /\ fate[r] = "unclassified"


-----------------------------------------------------------------------------
(* Claims about pacing *)

\* C17: main sleeps once after every group, whether its results were sent and
\* accepted, sent and lost, or there was nothing to send; so between any two
\* successive calls to the sink there is at least one sleep.
C17_PacedWhateverTheOutcome ==
    /\ slept = offset \div BATCH_SIZE
    /\ pc = "done" => slept = (Len(ips) + BATCH_SIZE - 1) \div BATCH_SIZE
    /\ \A k \in 1..NumCalls : sinkCalls[k].slept = sinkCalls[k].at \div BATCH_SIZE
    /\ \A k \in 1..(NumCalls - 1) : sinkCalls[k + 1].slept > sinkCalls[k].slept

\* A finished run of two groups: the call for the first failed, main slept,
\* and the call for the second was made.
C17_Witness ==
    /\ pc = "done"
    /\ NumCalls = 2
    /\ sinkCalls[1].outcome \in {"error", "500"}
    /\ sinkCalls[2].slept = sinkCalls[1].slept + 1
    /\ slept = 2


-----------------------------------------------------------------------------
(* Claims about the results *)

\* The results in existence: those the tasks of the current group returned,
\* those scan_batch has collected, and those sent to the sink.
ResultsProduced ==
    {task[j].out[1] : j \in {i \in DOMAIN task : task[i].out # <<>>}}
    \cup {results[n] : n \in DOMAIN results}

RecordsSent ==
    UNION {{sinkCalls[k].records[n] : n \in DOMAIN sinkCalls[k].records} :
             k \in 1..NumCalls}

\* C18: every result produced and every record sent to the sink names a
\* provider that is a key of the registry PROVIDERS; none has no provider.
C18_ProviderInRegistry ==
    \A r \in ResultsProduced \cup RecordsSent :
        r.provider \in ProviderKeys /\ r.provider # None

\* A call to the sink that carries a result classified by a header signature
\* and one classified by the hostname it was redirected to.
C18_Witness ==
    \E k \in 1..NumCalls :
        \E a, b \in DOMAIN sinkCalls[k].records :
            /\ sinkCalls[k].records[a].provider = "heroku"
            /\ sinkCalls[k].records[b].provider = "railway"


\* C19: every result produced and every record sent to the sink carries the
\* country the run was started for.
C19_CountryIsTarget ==
    \A r \in ResultsProduced \cup RecordsSent : r.country = country

\* A run for a country other than the default has sent a record.
C19_Witness ==
    /\ country = "US"
    /\ \E r \in RecordsSent : r.country = "US"


-----------------------------------------------------------------------------
(* Claims about toggle_selection *)

\* The positions of the rows with this id among the rows given.
RowsWithId(rows, host_id) == {j \in 1..Len(rows) : rows[j].id = host_id}

\* C20: toggle_selection on the id of a row flips selected in that row and in
\* no other, changes no other column and no other row, and answers with the new
\* value, so that a second toggle of the same id gives back the table as it
\* was; on an id no row has it changes nothing and answers false.  (The rows
\* are those the UPDATE of the request saw; the table changes when the request
\* commits, and at no other step of the request.)
C20_ToggleFlipsOneFlag ==
    [][\A i \in ToggleRequests :
          /\ (txn[i].op = "idle" /\ txn'[i].op # "idle") => store' = store
          /\ Answers(i) =>
                LET h == txn[i].req.host_id
                    hit == RowsWithId(txn[i].snapshot, h)
                    resp == txn'[i].resp[1]
                IN  /\ Len(store') = Len(store)
                    /\ Cardinality(hit) <= 1
                    /\ \A j \in 1..Len(store) :
                          IF j \in hit
                          THEN /\ store'[j] = [store[j] EXCEPT !.selected = ~@]
                               /\ resp.selected = store'[j].selected
                          ELSE store'[j] = store[j]
                    /\ hit = {} => (store' = store /\ resp.selected = FALSE)
                    /\ resp.status = 200
                    /\ hit # {} => UpdateSelected(store', h) = store]_vars

\* Two toggles of the same row of a table of two rows have been answered, the
\* first with true and the second with false: the flag is back to false, and
\* the other row was never touched.
C20_Witness ==
    /\ Len(store) = 2
    /\ \A j \in 1..Len(store) : ~store[j].selected
    /\ \E i, k \in ToggleRequests :
          /\ txn[i].resp # <<>> /\ txn[k].resp # <<>>
          /\ txn[i].req.host_id = txn[k].req.host_id
          /\ RowsWithId(store, txn[i].req.host_id) # {}
          /\ txn[i].resp[1].selected
          /\ ~txn[k].resp[1].selected


-----------------------------------------------------------------------------
(* Claims about concurrent add_results *)

\* The table accepts every record of request i: the parameters can be built
\* and NOT NULL holds.
AllAccepted(i) ==
    \A n \in 1..Len(txn[i].req.results) :
        /\ ~RaisesKeyError(txn[i].req.results[n])
        /\ ~NotNullViolation(txn[i].req.results[n])

\* Both requests to /api/results passed the key check, hold only records the
\* table accepts, and have been answered.
BothAnswered ==
    \A i \in Adders :
        /\ i \in DOMAIN txn
        /\ txn[i].op = "add_results"
        /\ txn[i].resp # <<>>
        /\ txn[i].resp[1].status = 200
        /\ AllAccepted(i)

\* The (ip, domain) pairs with a domain that request i holds.
PairsOf(i) ==
    {<<txn[i].req.results[n].ip, txn[i].req.results[n].domain>> :
        n \in {q \in 1..Len(txn[i].req.results) :
                 DictGet(Field(txn[i].req.results[q], "domain"), None) # None}}

RowsOfPair(pair) ==
    {j \in 1..Len(store) : store[j].ip = pair[1] /\ store[j].domain = pair[2]}

\* C21: when two requests that hold the same (ip, domain) pair are served on a
\* table without the pair, side by side in whatever interleaving, then once
\* both are answered the table holds exactly one row for the pair, and the two
\* added counts sum to the number of rows the table has gained.
C21_ConcurrentAddsAgree ==
    (BothAnswered /\ PairsOf(1) \cap PairsOf(2) # {}) =>
        /\ \A pair \in PairsOf(1) \cap PairsOf(2) : Cardinality(RowsOfPair(pair)) = 1
        /\ txn[1].resp[1].added + txn[2].resp[1].added = Len(store)


=============================================================================
